---------------------------- MODULE Spec2Model ----------------------------
(***************************************************************************)
(* Model of the Grid scene extension (class Grids, GridRenderable and the  *)
(* generators createLineList / createTexts) of src/unnamed/part_000.       *)
(*                                                                         *)
(* JavaScript numbers are modelled as extended rationals <<n, d>>:         *)
(*   d > 0  : the finite value n/d in lowest terms                         *)
(*   d = 0  : n = 1 is Infinity, n = -1 is -Infinity, n = 0 is NaN         *)
(*   d < 0  : the value undefined (it becomes NaN in arithmetic)           *)
(* Arithmetic is exact; the inputs of the model are chosen so that no      *)
(* quantity depends on binary rounding.                                    *)
(***************************************************************************)
EXTENDS Integers, Sequences, FiniteSets, TLC

(***************************************************************************)
(* Numbers                                                                 *)
(***************************************************************************)
Abs(n) == IF n < 0 THEN -n ELSE n

RECURSIVE GCD(_, _)
GCD(a, b) == IF b = 0 THEN a ELSE GCD(b, a % b)

Norm(n, d) ==
  LET s == IF d < 0 THEN -1 ELSE 1
      g == GCD(Abs(n), Abs(d))
  IN  <<(s * n) \div g, (s * d) \div g>>

Num(n) == <<n, 1>>
Frac(n, d) == Norm(n, d)
NaN == <<0, 0>>
PosInf == <<1, 0>>
NegInf == <<-1, 0>>
UndefinedNum == <<0, -1>>

IsUndefined(x) == x[2] < 0
ToNumber(x) == IF IsUndefined(x) THEN NaN ELSE x
IsNaN(x) == ToNumber(x) = NaN
IsFinite(x) == x[2] > 0
Sign(x) == IF x[1] > 0 THEN 1 ELSE IF x[1] < 0 THEN -1 ELSE 0

Neg(x) == LET a == ToNumber(x) IN <<-a[1], a[2]>>

\* The sum over the least common denominator.
Add(x, y) ==
  LET a == ToNumber(x)
      b == ToNumber(y)
  IN  IF a = NaN \/ b = NaN THEN NaN
      ELSE IF IsFinite(a) /\ IsFinite(b)
        THEN LET g == GCD(a[2], b[2])
             IN  Norm(a[1] * (b[2] \div g) + b[1] * (a[2] \div g), (a[2] \div g) * b[2])
      ELSE IF IsFinite(a) THEN b
      ELSE IF IsFinite(b) THEN a
      ELSE IF a = b THEN a ELSE NaN

Sub(x, y) == Add(x, Neg(y))

Mul(x, y) ==
  LET a == ToNumber(x)
      b == ToNumber(y)
  IN  IF a = NaN \/ b = NaN THEN NaN
      ELSE IF IsFinite(a) /\ IsFinite(b) THEN Norm(a[1] * b[1], a[2] * b[2])
      ELSE IF Sign(a) * Sign(b) = 0 THEN NaN
      ELSE <<Sign(a) * Sign(b), 0>>

\* Division; a zero divisor is +0, as every zero of the model is.
Div(x, y) ==
  LET a == ToNumber(x)
      b == ToNumber(y)
  IN  IF a = NaN \/ b = NaN THEN NaN
      ELSE IF IsFinite(a) /\ IsFinite(b)
        THEN IF b[1] # 0 THEN Norm(a[1] * b[2], a[2] * b[1])
             ELSE IF a[1] = 0 THEN NaN ELSE <<Sign(a), 0>>
      ELSE IF IsFinite(a) THEN Num(0)
      ELSE IF IsFinite(b) THEN <<Sign(a) * (IF Sign(b) < 0 THEN -1 ELSE 1), 0>>
      ELSE NaN

\* x < y and x <= y of JavaScript: false as soon as an operand is NaN.
Less(x, y) ==
  LET a == ToNumber(x)
      b == ToNumber(y)
  IN  IF a = NaN \/ b = NaN THEN FALSE
      ELSE IF IsFinite(a) /\ IsFinite(b) THEN Add(a, Neg(b))[1] < 0
      ELSE IF IsFinite(a) THEN b = PosInf
      ELSE IF IsFinite(b) THEN a = NegInf
      ELSE a = NegInf /\ b = PosInf

Leq(x, y) == Less(x, y) \/ (ToNumber(x) # NaN /\ ToNumber(x) = ToNumber(y))
Greater(x, y) == Less(y, x)

AbsNum(x) == IF Less(x, Num(0)) THEN Neg(x) ELSE ToNumber(x)

\* Number.prototype.toFixed(0): round half away from zero, sign kept.
RoundHalfUp(x) == (2 * x[1] + x[2]) \div (2 * x[2])

toFixed0(x) ==
  LET a == ToNumber(x)
  IN  IF a = NaN THEN "NaN"
      ELSE IF a = PosInf THEN "Infinity"
      ELSE IF a = NegInf THEN "-Infinity"
      ELSE IF a[1] < 0 THEN "-" \o ToString(RoundHalfUp(Neg(a)))
      ELSE ToString(RoundHalfUp(a))

(***************************************************************************)
(* Constants of the extension                                              *)
(***************************************************************************)
LAYER_ID == "foxglove.Grid"
DEFAULT_GRID_SIZE == 10
DEFAULT_GRID_DIVISIONS == 10
DEFAULT_GRID_LINE_WIDTH == 1
DEFAULT_GRID_COLOR == "#248eff"
DEFAULT_RANGE_MARKER_VISIBLE == FALSE
DEFAULT_RANGE_MARKER_FOLLOW_CAMERA == FALSE
DEFAULT_RANGE_MARKER_FOLLOW_CAMERA_NUDGE == <<Num(0), Num(0)>>
DEFAULT_RANGE_MARKER_POSITION == <<Num(-DEFAULT_GRID_SIZE), Num(-DEFAULT_GRID_SIZE)>>
DEFAULT_RANGE_MARKER_FONT_SIZE == 20
DEFAULT_RANGE_MARKER_FONT_COLOR == "#248eff"
MAX_DIVISIONS == 4096

\* The value undefined of a string-valued field (frameId).
UndefinedStr == "<undefined>"

Origin3 == <<Num(0), Num(0), Num(0)>>

DEFAULT_SETTINGS ==
  [ visible |-> TRUE,
    frameLocked |-> TRUE,
    label |-> "Grid",
    instanceId |-> "invalid",
    layerId |-> LAYER_ID,
    frameId |-> UndefinedStr,
    gridSize |-> Num(DEFAULT_GRID_SIZE),
    gridDivisions |-> Num(DEFAULT_GRID_DIVISIONS),
    gridLineWidth |-> Num(DEFAULT_GRID_LINE_WIDTH),
    gridColor |-> DEFAULT_GRID_COLOR,
    gridPosition |-> Origin3,
    gridRotation |-> Origin3,
    rangeMarkerVisible |-> DEFAULT_RANGE_MARKER_VISIBLE,
    rangeMarkerFollowCamera |-> DEFAULT_RANGE_MARKER_FOLLOW_CAMERA,
    rangeMarkerFollowCameraNudge |-> DEFAULT_RANGE_MARKER_FOLLOW_CAMERA_NUDGE,
    rangeMarkerPosition |-> DEFAULT_RANGE_MARKER_POSITION,
    rangeMarkerFontSize |-> Num(DEFAULT_RANGE_MARKER_FONT_SIZE),
    rangeMarkerFontColor |-> DEFAULT_RANGE_MARKER_FONT_COLOR ]

\* Object spread { ...a, ...b }: every key of b, present with undefined or
\* not, overrides the key of a.
Spread(a, b) ==
  [f \in (DOMAIN a) \cup (DOMAIN b) |-> IF f \in DOMAIN b THEN b[f] ELSE a[f]]

(***************************************************************************)
(* Geometry generators                                                     *)
(***************************************************************************)
White == [r |-> Num(1), g |-> Num(1), b |-> Num(1), a |-> Num(1)]

\* stringToRgba(output, str): writes the parsed colour into output and
\* leaves it as it was when the string does not parse.
stringToRgba(output, colorStr) ==
  IF colorStr = "#248eff"
    THEN [r |-> Frac(36, 255), g |-> Frac(142, 255), b |-> Num(1), a |-> Num(1)]
  ELSE IF colorStr = "#ff0000"
    THEN [r |-> Num(1), g |-> Num(0), b |-> Num(0), a |-> Num(1)]
  ELSE output

\* The body of the loop of createLineList for one i.
LinePointsAt(i, halfSize, step) ==
  LET x == Add(Neg(halfSize), Mul(Num(i), step))
  IN  << [x |-> x, y |-> Neg(halfSize), z |-> Num(0)],
         [x |-> x, y |-> halfSize, z |-> Num(0)],
         [x |-> Neg(halfSize), y |-> x, z |-> Num(0)],
         [x |-> halfSize, y |-> x, z |-> Num(0)] >>

\* Variant of the loop of createLineList that stops one line short (i < divisions).
RECURSIVE LinePointsFrom_Exclusive(_, _, _, _)
LinePointsFrom_Exclusive(i, divisions, halfSize, step) ==
  IF Less(Num(i), divisions)
    THEN LinePointsAt(i, halfSize, step)
           \o LinePointsFrom_Exclusive(i + 1, divisions, halfSize, step)
    ELSE <<>>

RECURSIVE LinePointsFrom(_, _, _, _)
LinePointsFrom(i, divisions, halfSize, step) ==
  IF Leq(Num(i), divisions)
    THEN LinePointsAt(i, halfSize, step) \o LinePointsFrom(i + 1, divisions, halfSize, step)
    ELSE <<>>

createLineList(settings) ==
  LET size == settings.gridSize
      divisions == settings.gridDivisions
      step == Div(size, divisions)
      halfSize == Div(size, Num(2))
  IN  [ type |-> "LINE_LIST",
        scale |-> [x |-> settings.gridLineWidth, y |-> Num(1), z |-> Num(1)],
        color |-> stringToRgba(White, settings.gridColor),
        points |-> LinePointsFrom(0, divisions, halfSize, step) ]

\* The body of the loop of createTexts for one i.
TextsAt(i, settings, color, halfSize, step) ==
  LET position == settings.rangeMarkerPosition
      gridPosition == settings.gridPosition
      relDistance == Add(Neg(halfSize), Mul(Num(i), step))
      point == <<Add(relDistance, gridPosition[1]), Add(relDistance, gridPosition[2])>>
  IN  << [ position |-> [x |-> relDistance,
                         y |-> Sub(Neg(position[2]), gridPosition[2]),
                         z |-> Num(0)],
           font_size |-> settings.rangeMarkerFontSize,
           color |-> color,
           text |-> toFixed0(point[1]) ],
         [ position |-> [x |-> Sub(position[1], gridPosition[1]),
                         y |-> relDistance,
                         z |-> Num(0)],
           font_size |-> settings.rangeMarkerFontSize,
           color |-> color,
           text |-> toFixed0(point[2]) ] >>

RECURSIVE TextsFrom(_, _, _, _, _)
TextsFrom(i, settings, color, halfSize, step) ==
  IF Leq(Num(i), settings.gridDivisions)
    THEN TextsAt(i, settings, color, halfSize, step)
           \o TextsFrom(i + 1, settings, color, halfSize, step)
    ELSE <<>>

\* Variant of createTexts that ignores rangeMarkerVisible.
createTexts_IgnoresVisible(settings) ==
  TextsFrom(0, settings,
            stringToRgba(White, settings.rangeMarkerFontColor),
            Div(settings.gridSize, Num(2)),
            Div(settings.gridSize, settings.gridDivisions))

createTexts(settings) ==
  IF settings.rangeMarkerVisible
    THEN TextsFrom(0, settings,
                   stringToRgba(White, settings.rangeMarkerFontColor),
                   Div(settings.gridSize, Num(2)),
                   Div(settings.gridSize, settings.gridDivisions))
    ELSE <<>>

(***************************************************************************)
(* Collaborators outside the file: ../math, ../transforms                  *)
(***************************************************************************)
\* approxEquals(a, b, epsilon = 0.00001): Math.abs(a - b) < epsilon.
Epsilon == Frac(1, 100000)
approxEquals(a, b) == Less(AbsNum(Sub(a, b)), Epsilon)

vec3TupleApproxEquals(a, b) ==
  approxEquals(a[1], b[1]) /\ approxEquals(a[2], b[2]) /\ approxEquals(a[3], b[3])

\* xyzrpyToPose(xyz, rpy): the pose at xyz with the orientation of the
\* roll/pitch/yaw triple; the orientation is kept as that triple.
xyzrpyToPose(xyz, rpy) == [position |-> xyz, orientation |-> rpy]

\* makePose(): the identity pose.
makePose == xyzrpyToPose(Origin3, Origin3)

(***************************************************************************)
(* Bounds and inputs                                                       *)
(***************************************************************************)
MaxSteps == 2
MaxDivisions == 3

InstanceIds == {"abc", "xyz"}
OTHER_LAYER_ID == "foxglove.Urdf"

Tiny == Frac(3, 500000)

FieldNames ==
  { "visible", "label", "frameId", "gridSize", "gridDivisions", "gridLineWidth",
    "gridColor", "gridPosition", "gridRotation", "rangeMarkerVisible",
    "rangeMarkerFollowCamera", "rangeMarkerFollowCameraNudge",
    "rangeMarkerPosition", "rangeMarkerFontSize", "rangeMarkerFontColor" }

NumericFields == {"gridSize", "gridDivisions", "gridLineWidth", "rangeMarkerFontSize"}

\* The values an update action carries for a field.
FieldValues(f) ==
  CASE f = "visible" -> {FALSE}
    [] f = "label" -> {UndefinedStr, "Ground"}
    [] f = "frameId" -> {UndefinedStr, "base_link"}
    [] f = "gridSize" -> {UndefinedNum, Num(20)}
    [] f = "gridDivisions" -> {UndefinedNum, Num(0)} \cup {Num(k) : k \in 1..MaxDivisions}
    [] f = "gridLineWidth" -> {UndefinedNum, Num(2)}
    [] f = "gridColor" -> {"#ff0000"}
    [] f = "gridPosition" -> { <<Num(1), Num(0), Num(0)>>,
                               <<Tiny, Num(0), Num(0)>>,
                               <<Add(Tiny, Tiny), Num(0), Num(0)>> }
    [] f = "gridRotation" -> { <<Num(0), Num(0), Num(90)>> }
    [] f = "rangeMarkerVisible" -> BOOLEAN
    [] f = "rangeMarkerFollowCamera" -> BOOLEAN
    [] f = "rangeMarkerFollowCameraNudge" -> { <<Num(1), Num(1)>> }
    [] f = "rangeMarkerPosition" -> { <<Num(0), Num(0)>>, <<Num(-12), Num(-12)>> }
    [] f = "rangeMarkerFontSize" -> {UndefinedNum, Num(12)}
    [] f = "rangeMarkerFontColor" -> {"bogus"}

\* The camera: fovy is held in units of pi radians, so that Math.sin(fovy / 2)
\* is rational on the inputs (sin 0 = 0, sin(pi/6) = 1/2, sin(pi/2) = 1).
NoCamera == [defined |-> FALSE, distance |-> Num(0), fovy |-> Num(0),
             targetOffset |-> Origin3]
Camera(distance, fovy, tx, ty) ==
  [defined |-> TRUE, distance |-> distance, fovy |-> fovy,
   targetOffset |-> <<tx, ty, Num(0)>>]

CameraStates ==
  { Camera(Num(10), Num(1), Num(0), Num(0)),
    Camera(Num(2), Frac(1, 3), Num(1), Num(-3)),
    Camera(Num(40), Num(1), Num(0), Num(60)) }

SinHalf(fovy) ==
  CASE fovy = Num(0) -> Num(0)
    [] fovy = Frac(1, 3) -> Frac(1, 2)
    [] fovy = Num(1) -> Num(1)

RenderFrameIds == {"map", "odom"}

\* The layers a panel configuration can hold when the extension is built.
GridLayer(id, order, fields) ==
  Spread([layerId |-> LAYER_ID, instanceId |-> id, order |-> order], fields)

InitialConfigs ==
  { [keys |-> <<>>, layers |-> <<>>],
    [keys |-> <<"abc">>,
     layers |-> [i \in {"abc"} |-> GridLayer("abc", 1, <<>>)]],
    [keys |-> <<"xyz", "abc">>,
     layers |-> [i \in {"abc", "xyz"} |->
        IF i = "abc"
          THEN GridLayer("abc", 2,
                 [gridSize |-> Num(20), gridDivisions |-> Num(2),
                  gridPosition |-> <<Num(1), Num(2), Num(0)>>,
                  frameId |-> "base_link",
                  rangeMarkerVisible |-> TRUE, rangeMarkerFollowCamera |-> TRUE])
          ELSE [layerId |-> OTHER_LAYER_ID, instanceId |-> "xyz", order |-> 1]]],
    [keys |-> <<"abc", "xyz">>,
     layers |-> [i \in {"abc", "xyz"} |->
        IF i = "abc"
          THEN GridLayer("abc", 1, [gridDivisions |-> Num(0), rangeMarkerVisible |-> TRUE])
          ELSE [layerId |-> LAYER_ID, instanceId |-> "xyz",
                gridDivisions |-> Num(MaxDivisions)]]] }

(***************************************************************************)
(* State                                                                   *)
(***************************************************************************)
VARIABLES
  keys,           \* renderer.config.layers: its keys in insertion order
  layers,         \* renderer.config.layers: instance id -> partial settings
  renderables,    \* this.renderables: instance id -> GridRenderable
  children,       \* the renderables added to the scene (this.children)
  lineDisposed,   \* per renderable object: calls of its lineList.dispose()
  textsDisposed,  \* per renderable object: calls of its texts.dispose()
  tree,           \* the settings tree entries last handed to the settings manager
  cameraState,    \* renderer.getCameraState()
  aspectRatio,    \* width / height of the drawing buffer
  disposed,       \* Grids.dispose() has run
  trace,          \* what the last handler did, in order
  lastEvent,      \* the last handler run
  steps           \* handlers run so far

vars == <<keys, layers, renderables, children, lineDisposed, textsDisposed, tree,
          cameraState, aspectRatio, disposed, trace, lastEvent, steps>>

\* The part of the state the handlers thread through their calls.
World ==
  [ keys |-> keys, layers |-> layers, renderables |-> renderables,
    children |-> children, lineDisposed |-> lineDisposed,
    textsDisposed |-> textsDisposed, tree |-> tree, trace |-> <<>>,
    cameraState |-> cameraState, aspectRatio |-> aspectRatio ]

Install(w) ==
  /\ keys' = w.keys
  /\ layers' = w.layers
  /\ renderables' = w.renderables
  /\ children' = w.children
  /\ lineDisposed' = w.lineDisposed
  /\ textsDisposed' = w.textsDisposed
  /\ tree' = w.tree
  /\ trace' = w.trace

\* The trace of a turn: config writes ("config", with the field written, "" for
\* a whole layer), settings-tree rebuilds ("tree"), geometry recomputes
\* ("geometry"), renderables removed ("teardown") or disposed with the
\* extension ("dispose"), and the start of a render frame ("frame", with the
\* render frame id in place of the instance id).
Event(ev, id, field) == [ev |-> ev, id |-> id, field |-> field]
Log(w, ev, id, field) == [w EXCEPT !.trace = Append(@, Event(ev, id, field))]

Some(s) == [defined |-> TRUE, value |-> s]
None == [defined |-> FALSE, value |-> <<>>]

Without(f, k) == [j \in (DOMAIN f) \ {k} |-> f[j]]
With(f, k, v) == [j \in (DOMAIN f) \cup {k} |-> IF j = k THEN v ELSE f[j]]

RECURSIVE SeqWithout(_, _)
SeqWithout(s, k) ==
  IF s = <<>> THEN <<>>
  ELSE IF Head(s) = k THEN SeqWithout(Tail(s), k)
  ELSE <<Head(s)>> \o SeqWithout(Tail(s), k)

IsGridLayer(w, id) ==
  /\ id \in DOMAIN w.layers
  /\ "layerId" \in DOMAIN w.layers[id]
  /\ w.layers[id].layerId = LAYER_ID

(***************************************************************************)
(* Grids: renderables                                                      *)
(***************************************************************************)
\* a > b ? a : b
Larger(a, b) == IF Greater(a, b) THEN a ELSE b

\* The viewport-derived and the grid-derived bound of #nudgeRangeMarkersIntoView.
FovAtGroundplane(camera) == Mul(SinHalf(camera.fovy), camera.distance)

viewportBounds(w, settings) ==
  << Add(Add(FovAtGroundplane(w.cameraState), w.cameraState.targetOffset[1]),
         settings.rangeMarkerFollowCameraNudge[1]),
     Add(Sub(Mul(FovAtGroundplane(w.cameraState), w.aspectRatio),
             w.cameraState.targetOffset[2]),
         settings.rangeMarkerFollowCameraNudge[2]) >>

gridNudge(settings) == Div(Mul(Frac(1, 2), settings.gridSize), settings.gridDivisions)

gridBounds(settings) ==
  << Sub(Sub(settings.gridPosition[1], Div(settings.gridSize, Num(2))), gridNudge(settings)),
     Sub(Sub(Neg(settings.gridPosition[2]), Div(settings.gridSize, Num(2))),
         gridNudge(settings)) >>

\* Variant of rangerMarkerBounds that takes the bound with the larger squared
\* length whole.
rangerMarkerBounds_LongerVector(v, g) ==
  IF Greater(Add(Mul(v[1], v[1]), Mul(v[2], v[2])), Add(Mul(g[1], g[1]), Mul(g[2], g[2])))
    THEN v ELSE g

rangerMarkerBounds(v, g) == << Larger(v[1], g[1]), Larger(v[2], g[2]) >>

\* #nudgeRangeMarkersIntoView
nudgeRangeMarkersIntoView(w, settings) ==
  IF ~w.cameraState.defined THEN settings.rangeMarkerPosition
  ELSE rangerMarkerBounds(viewportBounds(w, settings), gridBounds(settings))

\* #createRenderable: the new renderable is the next object of the run.
createRenderable(w, instanceId, settings) ==
  LET obj == Len(w.lineDisposed) + 1
      renderable ==
        [ obj |-> obj,
          frameId |-> "",
          pose |-> makePose,
          settings |-> settings,
          lineList |-> createLineList(settings),
          texts |-> createTexts(settings) ]
  IN  [w EXCEPT !.lineDisposed = Append(@, 0),
                !.textsDisposed = Append(@, 0),
                !.children = @ \cup {obj},
                !.renderables = With(@, instanceId, renderable)]

\* Variant of the delete branch that forgets this.renderables.delete(instanceId).
removeRenderable_KeepsMapping(w, instanceId) ==
  IF instanceId \in DOMAIN w.renderables
    THEN Log([w EXCEPT !.lineDisposed[w.renderables[instanceId].obj] = @ + 1,
                       !.textsDisposed[w.renderables[instanceId].obj] = @ + 1,
                       !.children = @ \ {w.renderables[instanceId].obj}],
             "teardown", instanceId, "")
    ELSE w

\* The delete branch of #updateGrid.
removeRenderable(w, instanceId) ==
  IF instanceId \in DOMAIN w.renderables
    THEN LET obj == w.renderables[instanceId].obj
         IN  Log([w EXCEPT !.lineDisposed[obj] = @ + 1,
                           !.textsDisposed[obj] = @ + 1,
                           !.children = @ \ {obj},
                           !.renderables = Without(@, instanceId)],
                 "teardown", instanceId, "")
    ELSE w

\* Variant of lines 591-594 that builds a new renderable on every update.
ensureRenderable_AlwaysCreates(w, instanceId, newSettings) ==
  [createRenderable(w, instanceId, newSettings)
     EXCEPT !.renderables[instanceId].pose =
              xyzrpyToPose(newSettings.gridPosition, newSettings.gridRotation)]

\* #updateGrid, lines 591-594: a renderable is created for an unseen id.
ensureRenderable(w, instanceId, newSettings) ==
  IF instanceId \in DOMAIN w.renderables THEN w
  ELSE [createRenderable(w, instanceId, newSettings)
          EXCEPT !.renderables[instanceId].pose =
                   xyzrpyToPose(newSettings.gridPosition, newSettings.gridRotation)]

\* #updateGrid, lines 599-602: the camera-follow position replaces the configured one.
withCameraFollow(w, newSettings) ==
  IF newSettings.rangeMarkerFollowCamera
    THEN [newSettings EXCEPT
            !.rangeMarkerPosition = nudgeRangeMarkersIntoView(w, newSettings)]
    ELSE newSettings

\* Variant of the change check that compares the tuples exactly.
poseChanged_ExactCompare(newSettings, prevSettings) ==
  \/ newSettings.gridPosition # prevSettings.gridPosition
  \/ newSettings.gridRotation # prevSettings.gridRotation

\* #updateGrid, lines 611-614: position or rotation moved by epsilon or more.
poseChanged(newSettings, prevSettings) ==
  \/ ~vec3TupleApproxEquals(newSettings.gridPosition, prevSettings.gridPosition)
  \/ ~vec3TupleApproxEquals(newSettings.gridRotation, prevSettings.gridRotation)

\* Variant of the update that appends the new points to the line list.
updateRenderable_AppendsPoints(renderable, prevSettings, newSettings) ==
  [ renderable EXCEPT
      !.settings = newSettings,
      !.lineList = [createLineList(newSettings) EXCEPT
                      !.points = renderable.lineList.points \o @],
      !.texts = createTexts(newSettings),
      !.pose = IF poseChanged(newSettings, prevSettings)
                 THEN xyzrpyToPose(newSettings.gridPosition, newSettings.gridRotation)
                 ELSE @ ]

\* #updateGrid, lines 596-616: settings, line list, texts and pose of the renderable.
updateRenderable(renderable, prevSettings, newSettings) ==
  [ renderable EXCEPT
      !.settings = newSettings,
      !.lineList = createLineList(newSettings),
      !.texts = createTexts(newSettings),
      !.pose = IF poseChanged(newSettings, prevSettings)
                 THEN xyzrpyToPose(newSettings.gridPosition, newSettings.gridRotation)
                 ELSE @ ]

pushSettings(w, instanceId, newSettings) ==
  Log([w EXCEPT !.renderables[instanceId] =
                  updateRenderable(@, @.settings, withCameraFollow(w, newSettings))],
      "geometry", instanceId, "")

\* The update branch of #updateGrid, from the merge of the defaults on.
applySettings(w, instanceId, settings) ==
  pushSettings(ensureRenderable(w, instanceId, Spread(DEFAULT_SETTINGS, settings)),
               instanceId, Spread(DEFAULT_SETTINGS, settings))

\* Variant of #updateGrid that creates the renderable before it handles deletes.
updateGrid_CreatesBeforeDelete(w, instanceId, settings) ==
  IF ~settings.defined
    THEN removeRenderable(ensureRenderable(w, instanceId, DEFAULT_SETTINGS), instanceId)
    ELSE applySettings(w, instanceId, settings.value)

\* #updateGrid(instanceId, settings); settings is Some(partial record) or None.
updateGrid(w, instanceId, settings) ==
  IF ~settings.defined
    THEN removeRenderable(w, instanceId)
    ELSE applySettings(w, instanceId, settings.value)

\* this.renderer.config.layers[instanceId]
LayerOf(w, instanceId) ==
  IF instanceId \in DOMAIN w.layers THEN Some(w.layers[instanceId]) ELSE None

(***************************************************************************)
(* Grids: settings tree                                                    *)
(***************************************************************************)
\* One entry of settingsNodes(): the node of a grid layer.
\* The value undefined of field f. The strings and the numbers of the
\* model have one; a boolean setting holds true or false.
IsNullish(f, v) ==
  CASE f \in {"label", "frameId", "gridColor", "rangeMarkerFontColor"} -> v = UndefinedStr
    [] f \in NumericFields -> IsUndefined(v)
    [] OTHER -> FALSE

\* config.f ?? default: the default stands in for an absent key and for a key
\* present with the value undefined.
ConfigOr(config, f, default) ==
  IF f \in DOMAIN config /\ ~IsNullish(f, config[f]) THEN config[f] ELSE default

SettingsNode(instanceId, config) ==
  [ path |-> <<"layers", instanceId>>,
    label |-> ConfigOr(config, "label", "Grid"),
    visible |-> ConfigOr(config, "visible", DEFAULT_SETTINGS.visible),
    order |-> IF "order" \in DOMAIN config THEN Num(config.order) ELSE UndefinedNum,
    fields |-> Spread([gridPosition |-> Origin3, gridRotation |-> Origin3],
                      [f \in (DOMAIN config) \cap (FieldNames \ {"visible", "label"})
                         |-> config[f]]),
    nudgeDisabled |->
      ~ConfigOr(config, "rangeMarkerFollowCamera", DEFAULT_RANGE_MARKER_FOLLOW_CAMERA),
    positionDisabled |->
      ConfigOr(config, "rangeMarkerFollowCamera", DEFAULT_RANGE_MARKER_FOLLOW_CAMERA) ]

\* The loop of settingsNodes() over Object.entries(config.layers).
RECURSIVE settingsNodesFrom(_, _, _)
settingsNodesFrom(w, ks, entries) ==
  IF ks = <<>> THEN [w EXCEPT !.tree = entries]
  ELSE
    LET instanceId == Head(ks)
    IN  IF ~IsGridLayer(w, instanceId)
          THEN settingsNodesFrom(w, Tail(ks), entries)
          ELSE
            settingsNodesFrom(
              IF instanceId \in DOMAIN w.renderables THEN w
              ELSE updateGrid(w, instanceId, Some(w.layers[instanceId])),
              Tail(ks),
              Append(entries, SettingsNode(instanceId, w.layers[instanceId])))

\* SceneExtension.updateSettingsTree(): hands settingsNodes() to the settings
\* manager.
updateSettingsTree(w) == settingsNodesFrom(Log(w, "tree", "", ""), w.keys, <<>>)

\* lodash set(draft, ["layers", instanceId, field], value)
setLayerField(w, instanceId, field, value) ==
  IF instanceId \in DOMAIN w.layers
    THEN [w EXCEPT !.layers[instanceId] = With(@, field, value)]
    ELSE [w EXCEPT !.keys = Append(@, instanceId),
                   !.layers = With(@, instanceId, With(<<>>, field, value))]

\* SceneExtension.saveSetting(path, value)
saveSetting(w, path, value) ==
  updateSettingsTree(
    Log(setLayerField(w, path[2], path[3], value), "config", path[2], path[3]))

\* delete draft.layers[instanceId]
deleteLayer(w, instanceId) ==
  [w EXCEPT !.keys = SeqWithout(@, instanceId), !.layers = Without(@, instanceId)]

\* this.#updateGrid(instanceId, this.renderer.config.layers[instanceId])
updateGridFromConfig(w, instanceId) == updateGrid(w, instanceId, LayerOf(w, instanceId))

\* Variant of handleSettingsAction that updates the grid from the payload of
\* the action alone instead of the saved layer.
handleSettingsAction_PayloadOnly(w, action) ==
  IF action.action = "perform-node-action"
    THEN IF Len(action.path) = 2 /\ action.id = "delete"
           THEN updateSettingsTree(
                  updateGrid(Log(deleteLayer(w, action.path[2]), "config", action.path[2], ""),
                             action.path[2], None))
           ELSE w
  ELSE IF Len(action.path) # 3 THEN w
  ELSE updateGrid(saveSetting(w, action.path, action.value), action.path[2],
                  Some(With(<<>>, action.path[3], action.value)))

\* Variant of handleSettingsAction that rejects only the paths shorter than 3.
handleSettingsAction_ShortPathsOnly(w, action) ==
  IF action.action = "perform-node-action"
    THEN IF Len(action.path) = 2 /\ action.id = "delete"
           THEN updateSettingsTree(
                  updateGrid(Log(deleteLayer(w, action.path[2]), "config", action.path[2], ""),
                             action.path[2], None))
           ELSE w
  ELSE IF Len(action.path) < 3 THEN w
  ELSE updateGridFromConfig(saveSetting(w, action.path, action.value), action.path[2])

\* Variant of handleSettingsAction that recomputes the grid before it saves
\* the setting.
handleSettingsAction_UpdatesBeforeSave(w, action) ==
  IF action.action = "perform-node-action"
    THEN IF Len(action.path) = 2 /\ action.id = "delete"
           THEN updateSettingsTree(
                  updateGrid(Log(deleteLayer(w, action.path[2]), "config", action.path[2], ""),
                             action.path[2], None))
           ELSE w
  ELSE IF Len(action.path) # 3 THEN w
  ELSE saveSetting(updateGrid(w, action.path[2],
                              Some(IF action.path[2] \in DOMAIN w.layers
                                     THEN w.layers[action.path[2]] ELSE <<>>)),
                   action.path, action.value)

\* handleSettingsAction(action)
handleSettingsAction(w, action) ==
  IF action.action = "perform-node-action"
    THEN IF Len(action.path) = 2 /\ action.id = "delete"
           THEN updateSettingsTree(
                  updateGrid(Log(deleteLayer(w, action.path[2]), "config", action.path[2], ""),
                             action.path[2], None))
           ELSE w
  ELSE IF Len(action.path) # 3 THEN w
  ELSE updateGridFromConfig(saveSetting(w, action.path, action.value), action.path[2])

(***************************************************************************)
(* Grids: event handlers                                                   *)
(***************************************************************************)
\* _.maxBy(Object.values(draft.layers), (layer) => layer?.order)?.order ?? 0
MaxOrder(ls) ==
  LET orders == {ls[i].order : i \in {j \in DOMAIN ls : "order" \in DOMAIN ls[j]}}
  IN  IF orders = {} THEN 0 ELSE CHOOSE m \in orders : \A o \in orders : o <= m

\* #handleAddGrid: the layer written to the config.
addLayer(w, instanceId, config, order) ==
  Log([w EXCEPT !.keys = IF instanceId \in DOMAIN w.layers THEN @ ELSE Append(@, instanceId),
                !.layers = With(@, instanceId, With(config, "order", order))],
      "config", instanceId, "")

\* #handleAddGrid(instanceId)
handleAddGrid(w, instanceId) ==
  updateSettingsTree(
    updateGrid(addLayer(w, instanceId, Spread(DEFAULT_SETTINGS, [instanceId |-> instanceId]),
                        1 + MaxOrder(w.layers)),
               instanceId, Some(Spread(DEFAULT_SETTINGS, [instanceId |-> instanceId]))))

\* #handleRangeMarkersConfigChanged: the body of the loop for one grid layer.
rangeMarkersConfigChangedAt(w, instanceId, followCameraFlag) ==
  updateGridFromConfig(
    updateSettingsTree(
      saveSetting(
        saveSetting(
          saveSetting(w, <<"layers", instanceId, "rangeMarkerVisible">>, TRUE),
          <<"layers", instanceId, "rangeMarkerFollowCameraNudge">>, <<Num(0), Num(0)>>),
        <<"layers", instanceId, "rangeMarkerFollowCamera">>, followCameraFlag)),
    instanceId)

\* #handleRangeMarkersConfigChanged: the loop over the layers of the config.
RECURSIVE rangeMarkersConfigChangedFrom(_, _, _)
rangeMarkersConfigChangedFrom(w, ks, followCameraFlag) ==
  IF ks = <<>> THEN w
  ELSE IF ~IsGridLayer(w, Head(ks))
    THEN rangeMarkersConfigChangedFrom(w, Tail(ks), followCameraFlag)
  ELSE rangeMarkersConfigChangedFrom(
         rangeMarkersConfigChangedAt(w, Head(ks), followCameraFlag),
         Tail(ks), followCameraFlag)

handleRangeMarkersConfigChanged(w, followCameraFlag) ==
  rangeMarkersConfigChangedFrom(w, w.keys, followCameraFlag)

\* The loop of the constructor and of #handleCameraStateChanged.
RECURSIVE updateGridLayersFrom(_, _)
updateGridLayersFrom(w, ks) ==
  IF ks = <<>> THEN w
  ELSE IF IsGridLayer(w, Head(ks))
    THEN updateGridLayersFrom(updateGrid(w, Head(ks), Some(w.layers[Head(ks)])), Tail(ks))
  ELSE updateGridLayersFrom(w, Tail(ks))

handleCameraStateChanged(w) == updateGridLayersFrom(w, w.keys)

\* #handleTransformTreeUpdated
handleTransformTreeUpdated(w) == updateSettingsTree(w)

\* Variant of startFrame that poses every renderable in the render frame.
startFrame_IgnoresConfigured(rs, renderFrameId) ==
  [i \in DOMAIN rs |-> [rs[i] EXCEPT !.frameId = renderFrameId]]

\* startFrame: the frame each renderable is posed in.
startFrame(rs, renderFrameId) ==
  [i \in DOMAIN rs |->
     [rs[i] EXCEPT !.frameId = IF rs[i].settings.frameId # UndefinedStr
                                 THEN rs[i].settings.frameId ELSE renderFrameId]]

\* GridRenderable.dispose() of one renderable.
RECURSIVE disposeRenderables(_, _)
disposeRenderables(w, ids) ==
  IF ids = {} THEN w
  ELSE LET i == CHOOSE j \in ids : TRUE
           obj == w.renderables[i].obj
       IN  disposeRenderables(Log([w EXCEPT !.lineDisposed[obj] = @ + 1,
                                            !.textsDisposed[obj] = @ + 1],
                                  "dispose", i, ""),
                              ids \ {i})

\* Grids.dispose(): SceneExtension.dispose() disposes every renderable, then
\* empties the scene children and the mapping.
disposeExtension(w) ==
  [disposeRenderables(w, DOMAIN w.renderables) EXCEPT !.children = {},
                                                      !.renderables = <<>>]

(***************************************************************************)
(* The state machine                                                       *)
(***************************************************************************)
UpdateAction(path, value) ==
  [action |-> "update", path |-> path, id |-> "", value |-> value]
NodeAction(path, id) ==
  [action |-> "perform-node-action", path |-> path, id |-> id, value |-> Num(0)]

MalformedActions ==
  UNION { { UpdateAction(<<"layers", i>>, Num(20)),
            UpdateAction(<<"layers", i, "gridSize", "value">>, Num(20)),
            NodeAction(<<"layers", i, "gridSize">>, "delete"),
            NodeAction(<<"layers">>, "delete") } : i \in InstanceIds }
    \cup { UpdateAction(<<>>, Num(20)) }

\* The constructor: a renderable for every grid layer of the configuration.
Constructed(cfg, cam, ar) ==
  updateGridLayersFrom(
    [ keys |-> cfg.keys, layers |-> cfg.layers, renderables |-> <<>>,
      children |-> {}, lineDisposed |-> <<>>, textsDisposed |-> <<>>,
      tree |-> <<>>, trace |-> <<>>, cameraState |-> cam, aspectRatio |-> ar ],
    cfg.keys)

InitWorld(w) ==
  /\ keys = w.keys
  /\ layers = w.layers
  /\ renderables = w.renderables
  /\ children = w.children
  /\ lineDisposed = w.lineDisposed
  /\ textsDisposed = w.textsDisposed
  /\ tree = w.tree
  /\ trace = w.trace

Init ==
  \E cfg \in InitialConfigs, cam \in {NoCamera, Camera(Num(10), Num(1), Num(0), Num(0))},
     ar \in {Num(1), Num(2)} :
    /\ InitWorld(Constructed(cfg, cam, ar))
    /\ cameraState = cam
    /\ aspectRatio = ar
    /\ disposed = FALSE
    /\ lastEvent = "constructor"
    /\ steps = 0

\* A call of a handler. dispose() takes the three renderer.on handlers off;
\* the add-grid action, handleSettingsAction, startFrame and dispose itself
\* stay callable.
Turn(name) ==
  /\ steps < MaxSteps
  /\ steps' = steps + 1
  /\ lastEvent' = name

AddGrid ==
  \E i \in InstanceIds :
    /\ Turn("addGrid")
    /\ Install(handleAddGrid(World, i))
    /\ UNCHANGED <<cameraState, aspectRatio, disposed>>

FieldUpdate ==
  \E i \in InstanceIds, f \in FieldNames :
    \E v \in FieldValues(f) :
      /\ Turn("fieldUpdate")
      /\ Install(handleSettingsAction(World, UpdateAction(<<"layers", i, f>>, v)))
      /\ UNCHANGED <<cameraState, aspectRatio, disposed>>

NodeDelete ==
  \E i \in InstanceIds :
    /\ Turn("delete")
    /\ Install(handleSettingsAction(World, NodeAction(<<"layers", i>>, "delete")))
    /\ UNCHANGED <<cameraState, aspectRatio, disposed>>

MalformedAction ==
  \E a \in MalformedActions :
    /\ Turn("malformed")
    /\ Install(handleSettingsAction(World, a))
    /\ UNCHANGED <<cameraState, aspectRatio, disposed>>

RangeMarkersConfigChanged ==
  \E followCameraFlag \in BOOLEAN :
    /\ ~disposed
    /\ Turn("rangeMarkersConfigChanged")
    /\ Install(handleRangeMarkersConfigChanged(World, followCameraFlag))
    /\ UNCHANGED <<cameraState, aspectRatio, disposed>>

CameraStateChanged ==
  \E cam \in CameraStates :
    /\ ~disposed
    /\ Turn("cameraStateChanged")
    /\ cameraState' = cam
    /\ Install(handleCameraStateChanged([World EXCEPT !.cameraState = cam]))
    /\ UNCHANGED <<aspectRatio, disposed>>

TransformTreeUpdated ==
  /\ ~disposed
  /\ Turn("transformTreeUpdated")
  /\ Install(handleTransformTreeUpdated(World))
  /\ UNCHANGED <<cameraState, aspectRatio, disposed>>

StartFrame ==
  \E renderFrameId \in RenderFrameIds :
    /\ Turn("startFrame")
    /\ renderables' = startFrame(renderables, renderFrameId)
    /\ trace' = <<Event("frame", renderFrameId, "")>>
    /\ UNCHANGED <<keys, layers, children, lineDisposed, textsDisposed, tree,
                   cameraState, aspectRatio, disposed>>

Dispose ==
  /\ Turn("dispose")
  /\ Install(disposeExtension(World))
  /\ disposed' = TRUE
  /\ UNCHANGED <<cameraState, aspectRatio>>

Next ==
  \/ AddGrid
  \/ FieldUpdate
  \/ NodeDelete
  \/ MalformedAction
  \/ RangeMarkersConfigChanged
  \/ CameraStateChanged
  \/ TransformTreeUpdated
  \/ StartFrame
  \/ Dispose

Spec == Init /\ [][Next]_vars

(***************************************************************************)
(* Properties                                                              *)
(***************************************************************************)
ProgramState ==
  <<keys, layers, renderables, children, lineDisposed, textsDisposed, tree,
    cameraState, aspectRatio, disposed>>

ActiveObjects == {renderables[i].obj : i \in DOMAIN renderables}
Objects == 1..Len(lineDisposed)

\* C1: a renderable that left the mapping (deleted, or disposed with the
\* extension) has had its line list and its texts disposed exactly once each,
\* one still in the mapping not at all, and a delete leaves its id absent.
C1_DeleteDisposesOnce ==
  /\ \A o \in Objects :
       IF o \in ActiveObjects
         THEN lineDisposed[o] = 0 /\ textsDisposed[o] = 0
         ELSE lineDisposed[o] = 1 /\ textsDisposed[o] = 1
  /\ lastEvent = "delete" => trace[1].id \notin DOMAIN renderables

\* The extension is disposed after a renderable was created and deleted: more
\* objects exist than the extension disposed in this turn.
C1_Witness ==
  /\ lastEvent = "dispose"
  /\ Len(lineDisposed) > Len(trace)
  /\ \A o \in Objects : lineDisposed[o] = 1 /\ textsDisposed[o] = 1

C2_Witness ==
  /\ lastEvent = "delete"
  /\ \A k \in 1..Len(trace) : trace[k].ev # "teardown"
  /\ renderables # <<>>

\* The layer of every instance but i is as it was, and so is its renderable
\* when it had one; one the tree rebuild creates (for a grid layer left
\* without a renderable by dispose()) holds the settings of its layer.
OthersUnchanged(i) ==
  \A j \in InstanceIds \ {i} :
    /\ (j \in DOMAIN layers') = (j \in DOMAIN layers)
    /\ j \in DOMAIN layers => layers'[j] = layers[j]
    /\ j \in DOMAIN renderables =>
         j \in DOMAIN renderables' /\ renderables'[j] = renderables[j]
    /\ j \in (DOMAIN renderables') \ DOMAIN renderables =>
         /\ j \in DOMAIN layers
         /\ \A g \in (DOMAIN DEFAULT_SETTINGS) \ {"rangeMarkerPosition"} :
              renderables'[j].settings[g] = Spread(DEFAULT_SETTINGS, layers[j])[g]

\* In the config store only field f of instance i is written.
ConfigOnlyField(i, f) ==
  /\ i \in DOMAIN layers'
  /\ f \in DOMAIN layers'[i]
  /\ DOMAIN layers'[i] = (IF i \in DOMAIN layers THEN DOMAIN layers[i] ELSE {}) \cup {f}
  /\ i \in DOMAIN layers =>
       \A g \in (DOMAIN layers[i]) \ {f} : layers'[i][g] = layers[i][g]

\* The settings of the renderable of i keep every field outside exempt.
RenderableKeeps(i, exempt) ==
  i \in DOMAIN renderables =>
    /\ i \in DOMAIN renderables'
    /\ \A g \in (DOMAIN renderables[i].settings) \ exempt :
         renderables'[i].settings[g] = renderables[i].settings[g]

C4_MalformedPathIgnored ==
  [][ lastEvent' = "malformed" => UNCHANGED ProgramState ]_vars

\* A malformed action arrived while a renderable was active.
C4_Witness ==
  /\ lastEvent = "malformed"
  /\ renderables # <<>>
  /\ steps = MaxSteps

\* A division count the data model allows: an integer in 1..MAX_DIVISIONS.
IsCount(D) == D[2] = 1 /\ D[1] >= 1 /\ D[1] <= MAX_DIVISIONS

\* C5: the division count of every active renderable, the one its geometry
\* was generated from, lies in [1, MAX_DIVISIONS].
C5_DivisionsClamped ==
  \A i \in DOMAIN renderables :
    /\ Leq(Num(1), renderables[i].settings.gridDivisions)
    /\ Leq(renderables[i].settings.gridDivisions, Num(MAX_DIVISIONS))

\* Every config write before event k of the turn is followed by a rebuild of
\* the settings tree before k.
TreeRebuiltBefore(k) ==
  \A c \in 1..(k - 1) :
    trace[c].ev = "config" => \E t \in (c + 1)..(k - 1) : trace[t].ev = "tree"

GeometryAfterTree ==
  \A k \in 1..Len(trace) : trace[k].ev = "geometry" => TreeRebuiltBefore(k)

\* C6 as claimed: in every turn a geometry recompute comes after the rebuild
\* of the settings tree that follows the config write.
C6_Original == GeometryAfterTree

\* The settings of the renderable of i are the defaults overlaid with the
\* layer of the config store, rangeMarkerPosition apart.
ReadsLatestConfig(i) ==
  /\ i \in DOMAIN renderables
  /\ i \in DOMAIN layers
  /\ \A g \in (DOMAIN DEFAULT_SETTINGS) \ {"rangeMarkerPosition"} :
       renderables[i].settings[g] = Spread(DEFAULT_SETTINGS, layers[i])[g]

\* The turn of an add-layer or a delete whose tree rebuild is event t: the
\* config write, the geometry or the teardown of that instance when t = 3,
\* the rebuild, and after it only the renderables the rebuild creates for
\* other grid layers that had none.
RebuildLast(t) ==
  /\ t <= Len(trace)
  /\ trace[1].ev = "config"
  /\ trace[t].ev = "tree"
  /\ t = 3 =>
       /\ trace[2].ev = (IF lastEvent = "addGrid" THEN "geometry" ELSE "teardown")
       /\ trace[2].id = trace[1].id
  /\ \A k \in (t + 1)..Len(trace) :
       trace[k].ev = "geometry" /\ trace[k].id # trace[1].id

\* C6 as amended: a field update and a range-marker config change write the
\* config, rebuild the tree, then recompute the geometry; add-layer and delete
\* write the config, create or tear down the renderable, then rebuild the
\* tree (the rebuild creates the renderable of a grid layer that has none);
\* in every turn no config write to an instance follows its geometry
\* recompute, and the renderable holds the settings last written.
C6_TurnOrder ==
  /\ lastEvent \in {"fieldUpdate", "rangeMarkersConfigChanged"} => GeometryAfterTree
  /\ lastEvent = "addGrid" => RebuildLast(3)
  /\ lastEvent = "delete" => RebuildLast(2) \/ RebuildLast(3)
  /\ \A k \in 1..Len(trace) :
       trace[k].ev = "geometry" =>
         \A c \in (k + 1)..Len(trace) :
           ~(trace[c].ev = "config" /\ trace[c].id = trace[k].id)
  /\ lastEvent \in {"fieldUpdate", "rangeMarkersConfigChanged", "addGrid"} =>
       \A k \in 1..Len(trace) : trace[k].ev = "config" => ReadsLatestConfig(trace[k].id)

\* Add-layer ran: config write, geometry, then the tree rebuild.
C6_Witness ==
  /\ lastEvent = "addGrid"
  /\ Len(trace) = 3
  /\ trace[2].ev = "geometry"
  /\ trace[3].ev = "tree"

C8_RangeLabels ==
  \A i \in DOMAIN renderables :
    LET D == renderables[i].settings.gridDivisions
        visible == renderables[i].settings.rangeMarkerVisible
    IN  IsCount(D) =>
          /\ (renderables[i].texts = <<>>) <=> ~visible
          /\ visible => Len(renderables[i].texts) = 2 * (D[1] + 1)

\* Labels were generated for 3 divisions.
C8_Witness ==
  \E i \in DOMAIN renderables :
    /\ renderables[i].settings.rangeMarkerVisible
    /\ renderables[i].settings.gridDivisions = Num(3)
    /\ Len(renderables[i].texts) = 8

\* A second run of the update of instance i with settings s leaves the
\* renderables as the first run, which gave w1, left them.
SecondRunKeeps(w1, i, s) == updateGrid(w1, i, Some(s)).renderables = w1.renderables

UpdateTwiceIsOnce(i, s) == SecondRunKeeps(updateGrid(World, i, Some(s)), i, s)

\* C9: the update of an active instance is idempotent: a second run with the
\* same settings and camera leaves points, labels, settings and pose as the
\* first run left them.
C9_UpdateIdempotent ==
  \A i \in DOMAIN renderables :
    /\ i \in DOMAIN layers => UpdateTwiceIsOnce(i, layers[i])
    /\ UpdateTwiceIsOnce(i, [gridPosition |-> <<Tiny, Num(0), Num(0)>>,
                             gridDivisions |-> Num(MaxDivisions),
                             rangeMarkerVisible |-> TRUE,
                             rangeMarkerFollowCamera |-> TRUE])

\* The camera event re-ran the update of a renderable that follows the camera
\* and shows labels.
C9_Witness ==
  /\ lastEvent = "cameraStateChanged"
  /\ \E i \in DOMAIN renderables :
       /\ i \in DOMAIN layers
       /\ renderables[i].settings.rangeMarkerFollowCamera
       /\ Len(renderables[i].texts) > 0
       /\ Len(renderables[i].lineList.points) > 0

\* A value the data model allows for a numeric setting.
ValidNumber(f, v) ==
  /\ IsFinite(v)
  /\ v[1] >= 0
  /\ f = "gridSize" => v[1] > 0
  /\ f = "gridDivisions" => IsCount(v)

\* C10: the effective settings of every renderable hold, for each numeric
\* setting, a valid number (the configured one, or the default in place of an
\* absent, undefined or invalid one), and a position and rotation.
C10_NumericDefaults ==
  \A i \in DOMAIN renderables :
    /\ \A f \in NumericFields :
         /\ ~IsUndefined(renderables[i].settings[f])
         /\ ValidNumber(f, renderables[i].settings[f])
    /\ "gridPosition" \in DOMAIN renderables[i].settings
    /\ "gridRotation" \in DOMAIN renderables[i].settings

\* The handlers that update in place: every handler but delete and dispose.
InPlaceEvents ==
  { "addGrid", "fieldUpdate", "cameraStateChanged", "rangeMarkersConfigChanged",
    "transformTreeUpdated", "malformed", "startFrame" }

\* The scene holds the renderable of every active id, and nothing else; no two
\* ids share a renderable.
OnePerId(rs, scene) ==
  /\ scene = {rs[i].obj : i \in DOMAIN rs}
  /\ \A i, j \in DOMAIN rs : rs[i].obj = rs[j].obj => i = j

InPlaceStep ==
  lastEvent' \in InPlaceEvents =>
    /\ \A i \in DOMAIN renderables :
         /\ i \in DOMAIN renderables'
         /\ renderables'[i].obj = renderables[i].obj
    /\ Len(lineDisposed') =
         Len(lineDisposed) + Cardinality((DOMAIN renderables') \ DOMAIN renderables)
    /\ OnePerId(renderables', children')

\* C11: an update replaces in place: through add-layer, field update, camera,
\* range-marker and settings-tree handlers an active id keeps the renderable
\* object made when it became active, the scene holds exactly that one
\* renderable for it, and a renderable is constructed only for an id that had
\* none.
C11_ReplaceInPlace == [][InPlaceStep]_vars

\* A field update and then a camera event ran on the first renderable of the
\* run, and it is still the only object ever made.
C11_Witness ==
  /\ lastEvent = "cameraStateChanged"
  /\ "abc" \in DOMAIN renderables
  /\ renderables["abc"].obj = 1
  /\ renderables["abc"].settings.gridLineWidth = Num(2)
  /\ Len(lineDisposed) = 1
  /\ children = {1}

\* The turn that led to the next state recomputed the geometry of instance i.
UpdatedInTurn(i) == \E k \in DOMAIN trace' : trace'[k] = Event("geometry", i, "")

\* Position and rotation of s are within epsilon of those of t, component by
\* component.
SamePlace(s, t) ==
  /\ \A k \in 1..3 : Less(AbsNum(Sub(s.gridPosition[k], t.gridPosition[k])), Epsilon)
  /\ \A k \in 1..3 : Less(AbsNum(Sub(s.gridRotation[k], t.gridRotation[k])), Epsilon)

PoseStep(i) ==
  IF UpdatedInTurn(i) /\ ~SamePlace(renderables'[i].settings, renderables[i].settings)
    THEN renderables'[i].pose =
           xyzrpyToPose(renderables'[i].settings.gridPosition,
                        renderables'[i].settings.gridRotation)
    ELSE renderables'[i].pose = renderables[i].pose

\* C12: the update of an active instance leaves the pose as it was when the
\* new position and rotation are within epsilon of those of the previous
\* settings, and sets it to the pose of the new position and rotation when
\* either differs.
C12_PoseOnlyOnChange ==
  [][\A i \in (DOMAIN renderables) \cap (DOMAIN renderables') : PoseStep(i)]_vars

\* Both cases happened on one renderable: a rotation by 90 set the pose, and
\* a position moved by less than epsilon then left it where it was.
C12_Witness ==
  /\ lastEvent = "fieldUpdate"
  /\ steps = 2
  /\ "abc" \in DOMAIN renderables
  /\ renderables["abc"].obj = 1
  /\ renderables["abc"].settings.gridPosition = <<Tiny, Num(0), Num(0)>>
  /\ renderables["abc"].pose = xyzrpyToPose(Origin3, <<Num(0), Num(0), Num(90)>>)

\* Math.max of two numbers: NaN as soon as one is NaN.
MaxNum(a, b) ==
  IF IsNaN(a) \/ IsNaN(b) THEN NaN
  ELSE IF Less(ToNumber(a), ToNumber(b)) THEN ToNumber(b) ELSE ToNumber(a)

\* The settings the configuration gives instance i, defaults filled in.
Configured(ls, i) == Spread(DEFAULT_SETTINGS, ls[i])

\* The two bounds of the camera-follow rule, from the formulas of the rule:
\* sin(fovy / 2) * distance + targetOffset + nudge (the y component scaled by
\* the aspect ratio, its offset negated) and position - size / 2 - size / (2 *
\* divisions) (the y position negated).
ViewportBound(cam, ar, s) ==
  << Add(Add(Mul(SinHalf(cam.fovy), cam.distance), cam.targetOffset[1]),
         s.rangeMarkerFollowCameraNudge[1]),
     Add(Sub(Mul(Mul(SinHalf(cam.fovy), cam.distance), ar), cam.targetOffset[2]),
         s.rangeMarkerFollowCameraNudge[2]) >>

GridBound(s) ==
  << Sub(Sub(s.gridPosition[1], Div(s.gridSize, Num(2))),
         Div(s.gridSize, Mul(Num(2), s.gridDivisions))),
     Sub(Sub(Neg(s.gridPosition[2]), Div(s.gridSize, Num(2))),
         Div(s.gridSize, Mul(Num(2), s.gridDivisions))) >>

ExpectedMarkerPosition(cam, ar, s) ==
  IF cam.defined
    THEN << MaxNum(ViewportBound(cam, ar, s)[1], GridBound(s)[1]),
            MaxNum(ViewportBound(cam, ar, s)[2], GridBound(s)[2]) >>
    ELSE s.rangeMarkerPosition

FollowStep(i) ==
  (/\ UpdatedInTurn(i)
   /\ i \in DOMAIN layers'
   /\ renderables'[i].settings.rangeMarkerFollowCamera)
  => renderables'[i].settings.rangeMarkerPosition =
       ExpectedMarkerPosition(cameraState', aspectRatio', Configured(layers', i))

\* C13: an update of an instance that follows the camera sets its range-marker
\* position to the component-wise maximum of the viewport bound and the grid
\* bound when there is a camera state, and to the configured position when
\* there is none.
C13_ComponentwiseMax ==
  [][\A i \in DOMAIN renderables' : FollowStep(i)]_vars

\* An update took the x component from the viewport bound and the y component
\* from the grid bound: the two components were chosen independently.
C13_Witness ==
  /\ cameraState.defined
  /\ \E i \in (DOMAIN renderables) \cap (DOMAIN layers) :
       /\ \E k \in DOMAIN trace : trace[k] = Event("geometry", i, "")
       /\ renderables[i].settings.rangeMarkerFollowCamera
       /\ IsFinite(GridBound(Configured(layers, i))[1])
       /\ renderables[i].settings.rangeMarkerPosition =
            << ViewportBound(cameraState, aspectRatio, Configured(layers, i))[1],
               GridBound(Configured(layers, i))[2] >>
       /\ Less(GridBound(Configured(layers, i))[1],
               ViewportBound(cameraState, aspectRatio, Configured(layers, i))[1])
       /\ Less(ViewportBound(cameraState, aspectRatio, Configured(layers, i))[2],
               GridBound(Configured(layers, i))[2])

\* v lies outside the open interval (-halfSize, halfSize).
OutsideGrid(v, halfSize) == Leq(v, Neg(halfSize)) \/ Leq(halfSize, v)

\* The labels of a renderable: createTexts pushes, for every i, the label of
\* the row (placed at y = -markerPosition_y - gridPosition_y) and then the
\* label of the column (placed at x = markerPosition_x - gridPosition_x).
LabelsOutsideGrid(r) ==
  \A k \in DOMAIN r.texts :
    IF k % 2 = 1
      THEN OutsideGrid(r.texts[k].position.y, Div(r.settings.gridSize, Num(2)))
      ELSE OutsideGrid(r.texts[k].position.x, Div(r.settings.gridSize, Num(2)))

\* C14: with rangeMarkerFollowCamera set and a camera state at hand, the row
\* and the column of range-marker labels of a grid of valid size and division
\* count lie outside the open square (-S/2, S/2) of the grid lines.
C14_LabelsNeverInsideGrid ==
  \A i \in DOMAIN renderables :
    (/\ cameraState.defined
     /\ renderables[i].settings.rangeMarkerFollowCamera
     /\ ValidNumber("gridSize", renderables[i].settings.gridSize)
     /\ ValidNumber("gridDivisions", renderables[i].settings.gridDivisions))
    => LabelsOutsideGrid(renderables[i])

\* The frame a renderable with settings s is posed in when the render frame
\* is renderFrameId.
ResolvedFrame(s, renderFrameId) ==
  IF s.frameId = UndefinedStr THEN renderFrameId ELSE s.frameId

FrameStep ==
  lastEvent' = "startFrame" =>
    /\ DOMAIN renderables' = DOMAIN renderables
    /\ \A i \in DOMAIN renderables :
         /\ renderables'[i].frameId =
              ResolvedFrame(renderables[i].settings, trace'[1].id)
         /\ renderables'[i].settings = renderables[i].settings
    /\ layers' = layers
    /\ keys' = keys

\* C15: a frame start leaves every active renderable with the frame id of
\* its settings when that is set and with the render frame id when it is
\* unset, and writes neither the settings nor the config store.
C15_FrameResolved == [][FrameStep]_vars

\* After a frame start in frame "odom" one renderable is posed in its
\* configured frame and another, with no configured frame, in "odom".
C15_Witness ==
  /\ lastEvent = "startFrame"
  /\ trace = <<Event("frame", "odom", "")>>
  /\ \E i, j \in DOMAIN renderables :
       /\ renderables[i].settings.frameId = "base_link"
       /\ renderables[i].frameId = "base_link"
       /\ renderables[j].settings.frameId = UndefinedStr
       /\ renderables[j].frameId = "odom"

\* The grid layers of the config store.
GridLayerIds ==
  {i \in DOMAIN layers : "layerId" \in DOMAIN layers[i] /\ layers[i].layerId = LAYER_ID}

\* C16: after construction and after every handler short of dispose, the ids
\* with an active renderable are exactly the layers of the config store whose
\* layerId is "foxglove.Grid".
C16_RenderablesMatchConfig ==
  ~disposed => DOMAIN renderables = GridLayerIds

\* The place the stored pose was computed for is within epsilon of the place
\* the settings give, component by component.
PoseAtSettings(r) ==
  /\ \A k \in 1..3 :
       Less(AbsNum(Sub(r.pose.position[k], r.settings.gridPosition[k])), Epsilon)
  /\ \A k \in 1..3 :
       Less(AbsNum(Sub(r.pose.orientation[k], r.settings.gridRotation[k])), Epsilon)

\* C17: the pose of every active renderable was computed for a position and a
\* rotation within epsilon of those of its current settings, whatever run of
\* updates led there.
C17_PoseTracksSettings == \A i \in DOMAIN renderables : PoseAtSettings(renderables[i])

=============================================================================
